---- MODULE Spec2Model ----
(***************************************************************************)
(* A model of sqlpro's placeholder substitution (util.go: replaceArgs,    *)
(* appendPlaceholder, escValue) and of its INSERT / UPDATE / Save         *)
(* orchestration (exec.go).                                                *)
(*                                                                         *)
(* SQL text is a sequence of one-character strings (or short tokens for   *)
(* the statement builders); Go values are records [kind, s, elems].       *)
(***************************************************************************)
EXTENDS Integers, Sequences, FiniteSets, TLC

\* ------------------------------------------------------------------ bounds
MaxLen == 3
MaxArgs == 2
MaxSliceLen == 2

\* ------------------------------------------------------- dialect settings
PlaceholderKey == "@"
PlaceholderValue == "?"
QUESTION == "QUESTION"
DOLLAR == "DOLLAR"
PlaceholderModes == {QUESTION, DOLLAR}

\* ------------------------------------------------------------ Go values
\* kind: "nil" (untyped nil), "string", "pstring" (*string), "int" (int, not 0),
\* "int0" (int 0), "nilptr" (typed nil *int), "ptr" (non-nil *int),
\* "bytes" ([]byte), "slice" (elems typed by s: "int", "ptr" or "iface").
Scalar(k, s) == [kind |-> k, s |-> s, elems |-> <<>>]
Nil == Scalar("nil", "")
Slice(et, es) == [kind |-> "slice", s |-> et, elems |-> es]
Bytes(es) == [kind |-> "bytes", s |-> "byte", elems |-> es]

IntItem(n) == Scalar("int", <<"x", "y", "z", "w">>[n])

\* []int{x, y, ...} of length n
IntSlice(n) == Slice("int", [j \in 1..n |-> IntItem(j)])

ArgValues ==
    {Nil, Scalar("string", "t"), Scalar("pstring", "t"), Bytes(<<>>)}
    \cup {IntSlice(n) : n \in 0..MaxSliceLen}
    \cup {Slice("ptr", <<Scalar("nilptr", ""), Scalar("ptr", "p")>>),
          Slice("iface", <<Scalar("int0", ""), Nil>>)}

SeqsUpTo(S, n) == UNION {[1..m -> S] : m \in 0..n}

Runes == {PlaceholderKey, PlaceholderValue, "a"}

\* --------------------------------------------------------------- state
\* replaceArgs (util.go 172-272): sqlS as runes and args (its inputs), mode
\* (db.PlaceholderMode), the locals i, nthArg, newArgs and sb, its position pc
\* ("loop", "done", "err", "panic"; "idle" when it is not running) and its
\* return value ret
VARIABLES sqlS, args, mode, i, nthArg, newArgs, sb, pc, ret

\* Insert / Update / Save (exec.go): the call (op; dataKind, info and rows are
\* the shape, the structInfo and the records of `data`; rows0 is rows as passed
\* in), the position (cpc; idx is the loop index, from 1), the locals of
\* updateClauseFromRow (upd) and its return value (clause), the calls saveRow
\* made (calls), the db.exec calls (execs, lastExec) and the error returned
\* (result)
VARIABLES op, dataKind, info, rows, rows0, cpc, idx, upd, clause, calls, execs,
          lastExec, result

rvars == <<sqlS, args, mode, i, nthArg, newArgs, sb, pc, ret>>
cvars == <<op, dataKind, info, rows, rows0, cpc, idx, upd, clause, calls, execs,
           lastExec, result>>
vars == <<rvars, cvars>>

\* ------------------------------------------------------------- helpers
\* database/sql/driver.IsValue: nil, []byte, bool, float64, int64, string, time.Time
DriverIsValue(v) == v.kind \in {"nil", "bytes", "string"}

\* reflect: rv.IsValid() && rv.Type().Kind() == reflect.Slice
IsSliceKind(v) == v.kind \in {"slice", "bytes"}

\* isZero panics on an untyped nil (reflect.Zero of a nil type)
IsZeroPanics(x) == x.kind = "nil"
isZero(x) == x.kind \in {"int0", "nilptr"}

allowNull(fi) == IF fi.ptr THEN ~fi.notNull ELSE fi.null

\* the fieldInfo replaceArgs builds for slice elements: only ptr is set
ElemFieldInfo(v) == [ptr |-> v.s = "ptr", notNull |-> FALSE, null |-> FALSE]

\* escValue of util.go: [panic, v]
escValue(value, fi) ==
    IF IsZeroPanics(value) THEN [panic |-> TRUE, v |-> Nil]
    ELSE IF isZero(value) /\ allowNull(fi) THEN [panic |-> FALSE, v |-> Nil]
    ELSE IF isZero(value) /\ fi.ptr THEN [panic |-> TRUE, v |-> Nil]
    ELSE [panic |-> FALSE, v |-> value]

Digits == <<"0", "1", "2", "3", "4", "5", "6", "7", "8", "9">>

RECURSIVE Itoa(_)
Itoa(n) == IF n < 10 THEN <<Digits[n + 1]>>
           ELSE Itoa(n \div 10) \o <<Digits[(n % 10) + 1]>>

\* db.Esc: quote a string for splicing into the statement
Esc(s) == <<"'", s, "'">>

appendPlaceholder_ZeroBased(b, numArg) ==
    IF mode = QUESTION THEN b \o <<"?">>
    ELSE b \o <<"$">> \o Itoa(numArg - 1)

appendPlaceholder(b, numArg) ==
    IF mode = QUESTION THEN b \o <<"?">>
    ELSE b \o <<"$">> \o Itoa(numArg)

\* the loop of lines 246-253 over elements j..Len(es): [sb, newArgs, panic]
RECURSIVE ExpandFrom(_, _, _, _, _)
ExpandFrom(es, fi, j, b, na) ==
    IF j > Len(es) THEN [sb |-> b, newArgs |-> na, panic |-> FALSE]
    ELSE LET b1 == IF j > 1 THEN b \o <<",">> ELSE b
             e == escValue(es[j], fi)
         IN IF e.panic THEN [sb |-> b1, newArgs |-> na, panic |-> TRUE]
            ELSE LET na1 == Append(na, e.v)
                 IN ExpandFrom(es, fi, j + 1, appendPlaceholder(b1, Len(na1)), na1)

lenRunes == Len(sqlS)
currRune == sqlS[i + 1]
nextRune == IF i + 1 < lenRunes THEN sqlS[i + 2] ELSE "NUL"
InLoop == pc = "loop" /\ i < lenRunes
IsSigil(r) == r = PlaceholderKey \/ r = PlaceholderValue
Doubled == (currRune = PlaceholderValue /\ nextRune = PlaceholderValue)
           \/ (currRune = PlaceholderKey /\ nextRune = PlaceholderKey)
AtPlaceholder == InLoop /\ IsSigil(currRune) /\ ~Doubled
arg == args[nthArg + 1]
NoRet == [sql |-> <<>>, args |-> <<>>, err |-> ""]
ErrRet(e) == [sql |-> <<>>, args |-> <<>>, err |-> e]

NoUpd == [values |-> <<>>, pending |-> {}, update |-> <<>>, where |-> <<>>,
          args |-> <<>>, idx |-> 0, valid |-> FALSE]
NoClause == [sql |-> <<>>, args |-> <<>>]
\* ------------------------------------------------------------- actions
RInit ==
    /\ sqlS \in SeqsUpTo(Runes, MaxLen)
    /\ args \in SeqsUpTo(ArgValues, MaxArgs)
    /\ mode \in PlaceholderModes
    /\ i = 0
    /\ nthArg = 0
    /\ newArgs = <<>>
    /\ sb = <<>>
    /\ pc = "loop"
    /\ ret = NoRet
    \* no Insert, Update or Save is running
    /\ op = "" /\ dataKind = "" /\ info = <<>> /\ rows = <<>> /\ rows0 = <<>>
    /\ cpc = "idle" /\ idx = 0 /\ upd = NoUpd /\ clause = NoClause
    /\ calls = <<>> /\ execs = <<>> /\ lastExec = NoClause /\ result = ""

\* lines 198-201
CopyRune ==
    /\ InLoop
    /\ ~IsSigil(currRune)
    /\ sb' = Append(sb, currRune)
    /\ i' = i + 1
    /\ UNCHANGED <<cvars, sqlS, args, mode, nthArg, newArgs, pc, ret>>

DoubledSigil_NoSkip ==
    /\ InLoop
    /\ IsSigil(currRune)
    /\ Doubled
    /\ sb' = Append(sb, currRune)
    /\ i' = i + 1
    /\ UNCHANGED <<cvars, sqlS, args, mode, nthArg, newArgs, pc, ret>>

\* lines 203-208
DoubledSigil ==
    /\ InLoop
    /\ IsSigil(currRune)
    /\ Doubled
    /\ sb' = Append(sb, currRune)
    /\ i' = i + 2
    /\ UNCHANGED <<cvars, sqlS, args, mode, nthArg, newArgs, pc, ret>>

\* lines 212-214
TooFewArgs ==
    /\ AtPlaceholder
    /\ nthArg >= Len(args)
    /\ pc' = "err"
    /\ ret' = ErrRet("tooFew")
    /\ UNCHANGED <<cvars, sqlS, args, mode, i, nthArg, newArgs, sb>>

\* lines 219-229, string and *string
KeySigil ==
    /\ AtPlaceholder
    /\ nthArg < Len(args)
    /\ currRune = PlaceholderKey
    /\ arg.kind \in {"string", "pstring"}
    /\ sb' = sb \o Esc(arg.s)
    /\ nthArg' = nthArg + 1
    /\ i' = i + 1
    /\ UNCHANGED <<cvars, sqlS, args, mode, newArgs, pc, ret>>

\* lines 225-226
KeyTypeError ==
    /\ AtPlaceholder
    /\ nthArg < Len(args)
    /\ currRune = PlaceholderKey
    /\ arg.kind \notin {"string", "pstring"}
    /\ nthArg' = nthArg + 1
    /\ pc' = "err"
    /\ ret' = ErrRet("keyType")
    /\ UNCHANGED <<cvars, sqlS, args, mode, i, newArgs, sb>>

AtValue == AtPlaceholder /\ nthArg < Len(args) /\ currRune = PlaceholderValue

\* lines 231-235
ValueDriver ==
    /\ AtValue
    /\ DriverIsValue(arg)
    /\ newArgs' = Append(newArgs, arg)
    /\ sb' = appendPlaceholder(sb, Len(newArgs) + 1)
    /\ nthArg' = nthArg + 1
    /\ i' = i + 1
    /\ UNCHANGED <<cvars, sqlS, args, mode, pc, ret>>

EmptySliceError_EmitsParens ==
    /\ AtValue
    /\ ~DriverIsValue(arg)
    /\ IsSliceKind(arg)
    /\ Len(arg.elems) = 0
    /\ sb' = sb \o <<"(", ")">>
    /\ nthArg' = nthArg + 1
    /\ i' = i + 1
    /\ UNCHANGED <<cvars, sqlS, args, mode, newArgs, pc, ret>>

\* lines 240-243
EmptySliceError ==
    /\ AtValue
    /\ ~DriverIsValue(arg)
    /\ IsSliceKind(arg)
    /\ Len(arg.elems) = 0
    /\ nthArg' = nthArg + 1
    /\ pc' = "err"
    /\ ret' = ErrRet("emptySlice")
    /\ UNCHANGED <<cvars, sqlS, args, mode, i, newArgs, sb>>

\* lines 244-256
ExpandSlice ==
    /\ AtValue
    /\ ~DriverIsValue(arg)
    /\ IsSliceKind(arg)
    /\ Len(arg.elems) # 0
    /\ LET r == ExpandFrom(arg.elems, ElemFieldInfo(arg), 1, sb \o <<"(">>, newArgs)
       IN IF r.panic
          THEN /\ pc' = "panic"
               /\ sb' = r.sb
               /\ newArgs' = r.newArgs
               /\ i' = i
          ELSE /\ pc' = pc
               /\ sb' = r.sb \o <<")">>
               /\ newArgs' = r.newArgs
               /\ i' = i + 1
    /\ nthArg' = nthArg + 1
    /\ UNCHANGED <<cvars, sqlS, args, mode, ret>>

\* lines 259-260
ValueScalar ==
    /\ AtValue
    /\ ~DriverIsValue(arg)
    /\ ~IsSliceKind(arg)
    /\ newArgs' = Append(newArgs, arg)
    /\ sb' = appendPlaceholder(sb, Len(newArgs) + 1)
    /\ nthArg' = nthArg + 1
    /\ i' = i + 1
    /\ UNCHANGED <<cvars, sqlS, args, mode, pc, ret>>

\* lines 264-267: the arguments the template did not consume
LeftOver_SkipsOne == SubSeq(args, nthArg + 2, Len(args))

LeftOver == SubSeq(args, nthArg + 1, Len(args))

ReturnOk ==
    /\ pc = "loop"
    /\ i >= lenRunes
    /\ pc' = "done"
    /\ newArgs' = newArgs \o LeftOver
    /\ ret' = [sql |-> sb, args |-> newArgs \o LeftOver, err |-> ""]
    /\ UNCHANGED <<cvars, sqlS, args, mode, i, nthArg, sb>>

RNext ==
    \/ CopyRune
    \/ DoubledSigil
    \/ TooFewArgs
    \/ KeySigil
    \/ KeyTypeError
    \/ ValueDriver
    \/ EmptySliceError
    \/ ExpandSlice
    \/ ValueScalar
    \/ ReturnOk

\* =================================================================
\* exec.go: Insert, Update, Save
\* =================================================================
MaxRows == 2

Cols == {"id", "k2", "name"}
TableName == "t"

FI(pk, omit, ptr, null, notNull) ==
    [primaryKey |-> pk, omitEmpty |-> omit, ptr |-> ptr, null |-> null,
     notNull |-> notNull]

\* the `db` tags a column may carry: "id" is "id,pk", "id,pk,omitempty" or
\* "id,pk,null"; "k2" is "k2,pk" or "k2"; "name" is an int tagged "name" or
\* "name,omitempty", or a *int tagged "name" or "name,notnull"
FieldInfos(c) ==
    IF c = "id"
    THEN {FI(TRUE, FALSE, FALSE, FALSE, FALSE), FI(TRUE, TRUE, FALSE, FALSE, FALSE),
          FI(TRUE, FALSE, FALSE, TRUE, FALSE)}
    ELSE IF c = "k2"
    THEN {FI(TRUE, FALSE, FALSE, FALSE, FALSE), FI(FALSE, FALSE, FALSE, FALSE, FALSE)}
    ELSE {FI(FALSE, FALSE, FALSE, FALSE, FALSE), FI(FALSE, TRUE, FALSE, FALSE, FALSE),
          FI(FALSE, FALSE, TRUE, FALSE, FALSE), FI(FALSE, FALSE, TRUE, FALSE, TRUE)}

\* structInfo: db name -> fieldInfo, as getStructInfo returns it
StructInfos ==
    UNION {{si \in [D -> UNION {FieldInfos(c) : c \in Cols}] :
               \A c \in D : si[c] \in FieldInfos(c)} : D \in SUBSET Cols}

\* the values a field holds: the zero value of its type or another one ("k2" is
\* never zero)
FieldValues(c, fi) ==
    IF fi.ptr THEN {Scalar("nilptr", c), Scalar("ptr", c)}
    ELSE IF c = "k2" THEN {Scalar("int", c)}
    ELSE {Scalar("int0", c), Scalar("int", c)}

Records(si) == {r \in [DOMAIN si -> UNION {FieldValues(c, si[c]) : c \in DOMAIN si}] :
                   \A c \in DOMAIN si : r[c] \in FieldValues(c, si[c])}

\* what db.exec reports as the last inserted id
InsertId == Scalar("int", "lastInsertId")

NoKey == ""

onlyPrimaryKey_First(si) ==
    LET pks == {c \in DOMAIN si : si[c].primaryKey}
    IN IF pks = {} THEN NoKey ELSE CHOOSE c \in pks : TRUE

onlyPrimaryKey(si) ==
    LET pks == {c \in DOMAIN si : si[c].primaryKey}
    IN IF Cardinality(pks) = 1 THEN CHOOSE c \in pks : TRUE ELSE NoKey

valuesFromStruct(data, si) ==
    LET keep == {c \in DOMAIN si : ~(isZero(data[c]) /\ si[c].omitEmpty)}
    IN [c \in keep |-> data[c]]

\* escValue as exec.go calls it: (escV, driverV, err)
escValue3(value, fi) ==
    IF isZero(value) /\ allowNull(fi)
    THEN [escV |-> "null", driverV |-> Nil, err |-> FALSE]
    ELSE IF isZero(value) /\ fi.ptr
    THEN [escV |-> "", driverV |-> Nil, err |-> TRUE]
    ELSE [escV |-> "", driverV |-> value, err |-> FALSE]

\* the orders in which a range over a map with keys S can visit them
Perms(S) == {f \in [1..Cardinality(S) -> S] : \A x \in S : \E j \in DOMAIN f : f[j] = x}

RECURSIVE Join(_, _)
Join(parts, sep) ==
    IF parts = <<>> THEN <<>>
    ELSE IF Len(parts) = 1 THEN parts[1]
    ELSE parts[1] \o <<sep>> \o Join(Tail(parts), sep)

RECURSIVE Concat(_)
Concat(parts) == IF parts = <<>> THEN <<>> ELSE Head(parts) \o Concat(Tail(parts))

\* insertClauseFromValues, the map visited in the given order: [sql, args, panic]
insertClauseFromValues(table, vals, si, order) ==
    LET e(j) == escValue3(vals[order[j]], si[order[j]])
        cols == [j \in DOMAIN order |-> Esc(order[j])]
        vs == [j \in DOMAIN order |-> IF e(j).escV = "" THEN <<"?">> ELSE <<e(j).escV>>]
        as == [j \in DOMAIN order |-> IF e(j).escV = "" THEN <<e(j).driverV>> ELSE <<>>]
    IN [sql |-> <<"INSERT INTO ">> \o Esc(table) \o <<" (">> \o Join(cols, ",")
                \o <<") VALUES(">> \o Join(vs, ",") \o <<")">>,
        args |-> Concat(as),
        panic |-> \E j \in DOMAIN order : e(j).err]

DataKinds == {"ptrStruct", "struct", "slicePtr", "sliceStruct", "other"}
RowsFor(kind, si) ==
    IF kind \in {"ptrStruct", "struct"} THEN [1..1 -> Records(si)]
    ELSE IF kind = "other" THEN {<<>>}
    ELSE SeqsUpTo(Records(si), MaxRows)


CInit ==
    /\ op \in {"Insert", "Update", "Save"}
    /\ dataKind \in DataKinds
    /\ info \in StructInfos
    /\ rows \in RowsFor(dataKind, info)
    /\ rows0 = rows
    /\ cpc = "start"
    /\ idx = 0
    /\ upd = NoUpd
    /\ clause = NoClause
    /\ calls = <<>>
    /\ execs = <<>>
    /\ lastExec = NoClause
    /\ result = ""
    \* replaceArgs is not running
    /\ sqlS = <<>> /\ args = <<>> /\ mode = QUESTION /\ i = 0 /\ nthArg = 0
    /\ newArgs = <<>> /\ sb = <<>> /\ pc = "idle" /\ ret = NoRet

Fail(e) == cpc' = "done" /\ result' = e

\* checkData, lines 19-52: a struct passed by value is not addressable
Addressable(kind) == kind \in {"ptrStruct", "slicePtr", "sliceStruct"}

CheckData ==
    /\ cpc = "start"
    /\ IF Addressable(dataKind)
       THEN cpc' = "row" /\ idx' = 1 /\ result' = result
       ELSE Fail("needs a slice of structs") /\ idx' = idx
    /\ UNCHANGED <<rvars, op, dataKind, info, rows, rows0, upd, clause, calls, execs, lastExec>>

\* the loops of Insert, Update and Save have run out of rows
ReturnNil ==
    /\ cpc = "row"
    /\ idx > Len(rows)
    /\ cpc' = "done"
    /\ result' = "ok"
    /\ UNCHANGED <<rvars, op, dataKind, info, rows, rows0, idx, upd, clause, calls, execs,
                   lastExec>>

AtRow == cpc = "row" /\ idx <= Len(rows)
row == rows[idx]
values == valuesFromStruct(row, info)

\* saveRow hands Insert and Update what Save gave it: the single struct pointer, or
\* rv.Index(i).Interface(), which for a []struct is a copy checkData rejects
SaveRowData == IF dataKind = "sliceStruct" THEN "struct" ELSE "ptrStruct"

\* saveRow, lines 365-369
SaveRowNoPk ==
    /\ AtRow
    /\ op = "Save"
    /\ onlyPrimaryKey(info) = NoKey
    /\ Fail("Save needs exactly one pk")
    /\ UNCHANGED <<rvars, op, dataKind, info, rows, rows0, idx, upd, clause, calls, execs,
                   lastExec>>

PkIsZero(si, vals) ==
    IF onlyPrimaryKey(si) \in DOMAIN vals THEN isZero(vals[onlyPrimaryKey(si)]) ELSE TRUE

\* saveRow, lines 371-373, and the checkData of the Insert it calls
SaveRowInsert ==
    /\ AtRow
    /\ op = "Save"
    /\ onlyPrimaryKey(info) # NoKey
    /\ PkIsZero(info, values)
    /\ calls' = Append(calls, [fn |-> "Insert", row |-> idx])
    /\ IF Addressable(SaveRowData)
       THEN cpc' = "insert" /\ result' = result
       ELSE Fail("needs a slice of structs")
    /\ UNCHANGED <<rvars, op, dataKind, info, rows, rows0, idx, upd, clause, execs, lastExec>>

\* saveRow, lines 374-376, and the checkData of the Update it calls
SaveRowUpdate ==
    /\ AtRow
    /\ op = "Save"
    /\ onlyPrimaryKey(info) # NoKey
    /\ ~PkIsZero(info, values)
    /\ calls' = Append(calls, [fn |-> "Update", row |-> idx])
    /\ IF Addressable(SaveRowData)
       THEN cpc' = "update" /\ result' = result
       ELSE Fail("needs a slice of structs")
    /\ UNCHANGED <<rvars, op, dataKind, info, rows, rows0, idx, upd, clause, execs, lastExec>>

AtInsert == (AtRow /\ op = "Insert") \/ cpc = "insert"
AtUpdate == (AtRow /\ op = "Update") \/ cpc = "update"

\* insertClauseFromValues panics on an escValue error (line 212)
InsertPanics ==
    /\ AtInsert
    /\ \E order \in Perms(DOMAIN values) :
          insertClauseFromValues(TableName, values, info, order).panic
    /\ cpc' = "panic"
    /\ UNCHANGED <<rvars, op, dataKind, info, rows, rows0, idx, upd, clause, calls, execs,
                   lastExec, result>>

\* insertStruct, lines 196-199: db.exec reports an error
InsertExecFails ==
    /\ AtInsert
    /\ \E order \in Perms(DOMAIN values) :
          LET c == insertClauseFromValues(TableName, values, info, order)
          IN /\ ~c.panic
             /\ lastExec' = [sql |-> c.sql, args |-> c.args]
    /\ execs' = Append(execs, [stmt |-> "INSERT", row |-> idx, ok |-> FALSE])
    /\ Fail("exec failed")
    /\ UNCHANGED <<rvars, op, dataKind, info, rows, rows0, idx, upd, clause, calls>>

\* the write-back of Insert, lines 88-91 and 98-101
SetInsertId(rs, j, si, id) ==
    IF onlyPrimaryKey(si) # NoKey THEN [rs EXCEPT ![j][onlyPrimaryKey(si)] = id]
    ELSE rs

\* insertStruct succeeds and Insert writes the id back
InsertExecOk ==
    /\ AtInsert
    /\ \E order \in Perms(DOMAIN values) :
          LET c == insertClauseFromValues(TableName, values, info, order)
          IN /\ ~c.panic
             /\ lastExec' = [sql |-> c.sql, args |-> c.args]
    /\ execs' = Append(execs, [stmt |-> "INSERT", row |-> idx, ok |-> TRUE])
    /\ rows' = SetInsertId(rows, idx, info, InsertId)
    /\ idx' = idx + 1
    /\ cpc' = "row"
    /\ UNCHANGED <<rvars, op, dataKind, info, rows0, upd, clause, calls, result>>

\* updateClauseFromRow, lines 235-245
UpdBegin ==
    /\ AtUpdate
    /\ upd' = [values |-> values, pending |-> DOMAIN values,
               update |-> <<"UPDATE ">> \o Esc(TableName) \o <<" SET ">>,
               where |-> <<" WHERE ">>, args |-> <<>>, idx |-> 0, valid |-> FALSE]
    /\ cpc' = "updLoop"
    /\ UNCHANGED <<rvars, op, dataKind, info, rows, rows0, idx, clause, calls, execs,
                   lastExec, result>>

InUpdLoop == cpc = "updLoop" /\ upd.pending # {}

\* the text and argument one column adds (lines 256-263 and 269-280)
Assign(b, key, e) ==
    b \o Esc(key) \o <<"=">> \o (IF e.escV = "" THEN <<PlaceholderValue>> ELSE <<e.escV>>)
Bind(as, e) == IF e.escV = "" THEN Append(as, e.driverV) ELSE as

\* one iteration of the range over values (line 246), for a primary key
UpdKeyPk ==
    /\ InUpdLoop
    /\ \E key \in upd.pending :
          LET e == escValue3(upd.values[key], info[key])
          IN /\ info[key].primaryKey
             /\ IF e.err
                THEN Fail("escValue") /\ upd' = upd
                ELSE IF e.escV = "null"
                THEN Fail("nil key") /\ upd' = upd
                ELSE /\ upd' = [upd EXCEPT !.pending = @ \ {key},
                                           !.where = Assign(@, key, e),
                                           !.args = Bind(@, e),
                                           !.valid = TRUE]
                     /\ UNCHANGED <<cpc, result>>
    /\ UNCHANGED <<rvars, op, dataKind, info, rows, rows0, idx, clause, calls, execs, lastExec>>

\* one iteration of the range over values, for any other column
UpdKeyOther ==
    /\ InUpdLoop
    /\ \E key \in upd.pending :
          LET e == escValue3(upd.values[key], info[key])
              u == IF upd.idx > 0 THEN upd.update \o <<",">> ELSE upd.update
          IN /\ ~info[key].primaryKey
             /\ IF e.err
                THEN Fail("escValue") /\ upd' = upd
                ELSE /\ upd' = [upd EXCEPT !.pending = @ \ {key},
                                           !.update = Assign(u, key, e),
                                           !.args = Bind(@, e),
                                           !.idx = @ + 1]
                     /\ UNCHANGED <<cpc, result>>
    /\ UNCHANGED <<rvars, op, dataKind, info, rows, rows0, idx, clause, calls, execs, lastExec>>

\* lines 285-287
UpdNoKey ==
    /\ cpc = "updLoop"
    /\ upd.pending = {}
    /\ ~upd.valid
    /\ Fail("at least one key needed")
    /\ UNCHANGED <<rvars, op, dataKind, info, rows, rows0, idx, upd, clause, calls, execs,
                   lastExec>>

\* line 290
UpdReturn ==
    /\ cpc = "updLoop"
    /\ upd.pending = {}
    /\ upd.valid
    /\ clause' = [sql |-> upd.update \o upd.where, args |-> upd.args]
    /\ cpc' = "updExec"
    /\ UNCHANGED <<rvars, op, dataKind, info, rows, rows0, idx, upd, calls, execs, lastExec,
                   result>>

\* Update, lines 316-319 and 327-330
UpdExecFails ==
    /\ cpc = "updExec"
    /\ lastExec' = clause
    /\ execs' = Append(execs, [stmt |-> "UPDATE", row |-> idx, ok |-> FALSE])
    /\ Fail("exec failed")
    /\ upd' = NoUpd
    /\ clause' = NoClause
    /\ UNCHANGED <<rvars, op, dataKind, info, rows, rows0, idx, calls>>

UpdExecOk ==
    /\ cpc = "updExec"
    /\ lastExec' = clause
    /\ execs' = Append(execs, [stmt |-> "UPDATE", row |-> idx, ok |-> TRUE])
    /\ idx' = idx + 1
    /\ cpc' = "row"
    /\ upd' = NoUpd
    /\ clause' = NoClause
    /\ UNCHANGED <<rvars, op, dataKind, info, rows, rows0, calls, result>>

CNext ==
    \/ CheckData
    \/ ReturnNil
    \/ SaveRowNoPk
    \/ SaveRowInsert
    \/ SaveRowUpdate
    \/ InsertPanics
    \/ InsertExecFails
    \/ InsertExecOk
    \/ UpdBegin
    \/ UpdKeyPk
    \/ UpdKeyOther
    \/ UpdNoKey
    \/ UpdReturn
    \/ UpdExecFails
    \/ UpdExecOk

SpecReplace == RInit /\ [][RNext]_vars

SpecCrud == CInit /\ [][CNext]_vars

\* =================================================================
\* Properties of replaceArgs
\* =================================================================
DigitVal(c) == CHOOSE d \in 0..9 : Digits[d + 1] = c
IsDigit(c) == \E d \in 1..10 : Digits[d] = c

\* the number starting at position p of t: [n, p] with p the first position after it
RECURSIVE ReadNum(_, _, _)
ReadNum(t, p, acc) ==
    IF p <= Len(t) /\ IsDigit(t[p]) THEN ReadNum(t, p + 1, acc * 10 + DigitVal(t[p]))
    ELSE [n |-> acc, p |-> p]

\* the indices of the "$n" marks of t from position p on, left to right
\* (a "$" with no digit after it reads as 0)
RECURSIVE MarkIndices(_, _)
MarkIndices(t, p) ==
    IF p > Len(t) THEN <<>>
    ELSE IF t[p] = "$"
         THEN LET r == ReadNum(t, p + 1, 0) IN <<r.n>> \o MarkIndices(t, r.p)
         ELSE MarkIndices(t, p + 1)

RECURSIVE CountOf(_, _)
CountOf(t, c) == IF t = <<>> THEN 0
                 ELSE (IF Head(t) = c THEN 1 ELSE 0) + CountOf(Tail(t), c)

\* the template read from position p (1-based) on, pairing sigils left to
\* right: k non-doubled sigils, dv doubled value sigils
RECURSIVE Sigils(_, _)
Sigils(t, p) ==
    IF p > Len(t) THEN [k |-> 0, dv |-> 0]
    ELSE IF ~IsSigil(t[p])
         THEN Sigils(t, p + 1)
         ELSE IF p < Len(t) /\ t[p + 1] = t[p]
              THEN LET r == Sigils(t, p + 2)
                   IN [k |-> r.k, dv |-> r.dv + (IF t[p] = PlaceholderValue THEN 1 ELSE 0)]
              ELSE LET r == Sigils(t, p + 1) IN [k |-> r.k + 1, dv |-> r.dv]

\* the parameters the template produced so far (the left-over arguments excluded)
Produced == IF pc = "done" THEN Len(newArgs) - Len(LeftOver) ELSE Len(newArgs)

NonEmptySliceAtValue ==
    AtValue /\ IsSliceKind(arg) /\ ~DriverIsValue(arg) /\ Len(arg.elems) > 0

\* the parameter bound for element e of a slice with element type et
ParamOf(et, e) == IF et = "ptr" /\ e.kind = "nilptr" THEN Nil ELSE e

\* the text "(m1,m2,...,mN)" whose marks number the parameters from first on
RECURSIVE MarkList(_, _)
MarkList(first, n) ==
    IF n = 0 THEN <<>>
    ELSE (IF mode = QUESTION THEN <<"?">> ELSE <<"$">> \o Itoa(first))
         \o (IF n > 1 THEN <<",">> ELSE <<>>) \o MarkList(first + 1, n - 1)

\* C1: a value sigil that consumes a non-empty slice of length N which is not a
\* driver-native value adds one group "(" m1 "," ... "," mN ")" of exactly N marks
\* to the SQL and appends exactly N parameters, one per element, in element order.
C1_SliceExpansion ==
    [][NonEmptySliceAtValue =>
        LET n == Len(arg.elems)
        IN /\ pc' = "loop"
           /\ sb' = sb \o <<"(">> \o MarkList(Len(newArgs) + 1, n) \o <<")">>
           /\ newArgs' = newArgs \o [j \in 1..n |-> ParamOf(arg.s, arg.elems[j])]
    ]_vars

\* C2: in DOLLAR mode the marks of the SQL text read 1, 2, 3, ... left to right,
\* the k-th mark standing for the k-th parameter (each mark is written right after
\* its parameter is appended, so at every point of the scan the marks number the
\* parameters produced so far); in QUESTION mode the text holds no index, and the
\* "?" of the result are the marks plus the doubled value sigils.
C2_PlaceholderNumbering ==
    /\ (mode = DOLLAR /\ pc \in {"loop", "done"}) =>
           MarkIndices(sb, 1) = [k \in 1..Produced |-> k]
    /\ (mode = DOLLAR /\ pc = "done") =>
           MarkIndices(ret.sql, 1) = [k \in 1..Produced |-> k]
    /\ mode = QUESTION =>
           \A p \in 1..Len(sb) : sb[p] # "$" /\ ~IsDigit(sb[p])
    /\ (mode = QUESTION /\ pc = "done") =>
           CountOf(ret.sql, "?") = Produced + Sigils(sqlS, 1).dv

\* a numbered result with at least two marks, a key sigil and a left-over argument
C2_Witness ==
    /\ pc = "done"
    /\ mode = DOLLAR
    /\ Len(MarkIndices(ret.sql, 1)) >= 2
    /\ Len(LeftOver) >= 1
    /\ \E p \in 1..Len(sqlS) : IsSigil(sqlS[p]) /\ sqlS[p] = PlaceholderKey

\* C3: on success with k non-doubled sigils and n > k arguments, the last n-k
\* returned parameters are args[k+1..n] unchanged and in order, after every
\* parameter the template produced; left-over arguments are never an error (the
\* too-few-arguments error needs fewer arguments than sigils).
C3_LeftOverArgs ==
    LET k == Sigils(sqlS, 1).k
        n == Len(args)
        m == Len(ret.args)
    IN /\ (pc = "done" /\ n > k) =>
              /\ m >= n - k
              /\ SubSeq(ret.args, m - (n - k) + 1, m) = SubSeq(args, k + 1, n)
       /\ (pc = "err" /\ ret.err = "tooFew") => n < k

\* a successful substitution that consumed an argument and left another over
C3_Witness ==
    /\ pc = "done"
    /\ Sigils(sqlS, 1).k >= 1
    /\ Len(args) > Sigils(sqlS, 1).k
    /\ Len(ret.args) > Len(args) - Sigils(sqlS, 1).k

\* C4: at any scan position, a sigil immediately followed by the same sigil emits
\* that character once, consumes no argument, appends no parameter and moves the
\* scan past both; a key sigil followed by a value sigil (or the reverse) is not a
\* doubling: the first of the two consumes an argument or fails.
C4_DoubledSigil ==
    [][/\ (InLoop /\ IsSigil(currRune) /\ i + 1 < lenRunes /\ sqlS[i + 2] = currRune) =>
              /\ sb' = Append(sb, currRune)
              /\ nthArg' = nthArg
              /\ newArgs' = newArgs
              /\ i' = i + 2
              /\ pc' = "loop"
       /\ (InLoop /\ IsSigil(currRune) /\ i + 1 < lenRunes
           /\ IsSigil(sqlS[i + 2]) /\ sqlS[i + 2] # currRune) =>
              (nthArg' = nthArg + 1 \/ pc' = "err")
    ]_vars

\* the scan has passed a doubled value sigil that follows other text
C4_Witness ==
    /\ pc = "loop"
    /\ i = 3
    /\ sqlS[2] = PlaceholderValue
    /\ sqlS[3] = PlaceholderValue
    /\ sb = <<sqlS[1], PlaceholderValue>>
    /\ nthArg = 0

\* C5 as stated: a value sigil that consumes a slice with zero elements, of any
\* element type, makes replaceArgs return an error with empty SQL and no
\* parameters, and writes neither "()" nor a mark.
C5_EmptySliceAlwaysErrors ==
    [][(AtValue /\ IsSliceKind(arg) /\ Len(arg.elems) = 0) =>
        /\ pc' = "err"
        /\ ret'.sql = <<>>
        /\ ret'.args = <<>>
        /\ sb' = sb
    ]_vars

\* C5 amended: the same for an empty slice that is not a driver-native value
\* (an empty []byte is bound as one ordinary parameter).
C5_EmptyNonDriverSliceErrors ==
    [][(AtValue /\ IsSliceKind(arg) /\ ~DriverIsValue(arg) /\ Len(arg.elems) = 0) =>
        /\ pc' = "err"
        /\ ret'.sql = <<>>
        /\ ret'.args = <<>>
        /\ sb' = sb
    ]_vars

\* replaceArgs has returned the empty-slice error after writing a mark
C5_Witness ==
    /\ pc = "err"
    /\ ret.err = "emptySlice"
    /\ ret.sql = <<>>
    /\ Len(newArgs) >= 1

\* =================================================================
\* Properties of Insert, Update and Save
\* =================================================================
PkCols(si) == {c \in DOMAIN si : si[c].primaryKey}
ThePk == CHOOSE c \in PkCols(info) : TRUE

\* the position of token tok in text t (0 when absent)
PosOf(t, tok) == IF \E p \in 1..Len(t) : t[p] = tok
                 THEN CHOOSE p \in 1..Len(t) : t[p] = tok /\ \A q \in 1..(p - 1) : t[q] # tok
                 ELSE 0

\* the WHERE clause of a statement: the tokens after " WHERE "
WherePart(t) == SubSeq(t, PosOf(t, " WHERE ") + 1, Len(t))

\* the columns whose value is a placeholder in text t from position p on, left
\* to right: a column is written Esc(key), "=", mark
RECURSIVE PlaceholderCols(_, _)
PlaceholderCols(t, p) ==
    IF p > Len(t) THEN <<>>
    ELSE IF t[p] = PlaceholderValue /\ p > 3 /\ t[p - 1] = "="
         THEN <<t[p - 3]>> \o PlaceholderCols(t, p + 1)
         ELSE PlaceholderCols(t, p + 1)

C7_UpdateNeedsSetAndKey ==
    cpc = "updExec" =>
        /\ \E c \in DOMAIN upd.values : ~info[c].primaryKey
        /\ \E c \in DOMAIN upd.values : info[c].primaryKey

\* C8: with k >= 2 primary-key columns in the value map, the WHERE clause holds k
\* equality predicates joined by k-1 ANDs.
C8_WhereJoinsKeysWithAnd ==
    LET k == Cardinality({c \in DOMAIN upd.values : info[c].primaryKey})
    IN (cpc = "updExec" /\ k >= 2) =>
           /\ CountOf(WherePart(clause.sql), "=") = k
           /\ CountOf(WherePart(clause.sql), " AND ") = k - 1

\* C9: after a successful INSERT of a record whose type has exactly one primary
\* key, that field holds the driver's last-inserted-id if it was zero before and
\* its old value otherwise; after a failed Exec the field is as it was.
C9_InsertIdOnlyIntoZeroKey ==
    \A e \in 1..Len(execs) :
        (execs[e].stmt = "INSERT" /\ Cardinality(PkCols(info)) = 1) =>
            LET j == execs[e].row
            IN rows[j][ThePk] = (IF execs[e].ok /\ isZero(rows0[j][ThePk]) THEN InsertId
                                 ELSE rows0[j][ThePk])

\* C10: the i-th placeholder of the statement updateClauseFromRow returns stands
\* for the column whose value is the i-th returned argument.
C10_UpdateArgsAligned ==
    cpc = "updExec" =>
        LET cols == PlaceholderCols(clause.sql, 1)
        IN /\ Len(cols) = Len(clause.args)
           /\ \A j \in 1..Len(cols) : clause.args[j] = upd.values[cols[j]]
====
